---------------------------- MODULE Spec2Model ----------------------------
(***************************************************************************)
(* A model of filofax_generator.py: the week loop of                       *)
(* create_filofax_calendar, the page tiler, the sheet renderer's month     *)
(* label and ruling, and the canvas calls (showPage, saveState, translate, *)
(* restoreState, save) the program issues.                                 *)
(*                                                                         *)
(* Lengths are exact integers in tenths of a millimetre: cm = 100 and      *)
(* inch = 254, so Letter paper (8.5 x 11 inch) is 2159 x 2794.  The        *)
(* program computes the same quantities in IEEE doubles of points; the     *)
(* model's arithmetic is the exact one.                                    *)
(*                                                                         *)
(* Dates are proleptic Gregorian ordinals as datetime.toordinal() gives    *)
(* them (0001-01-01 is day 1, a Monday).                                   *)
(***************************************************************************)
EXTENDS Integers, Sequences, FiniteSets, TLC

----------------------------------------------------------------------------
(* Units and layout constants *)

cm == 100

LETTER_WIDTH == 2159

LETTER_HEIGHT == 2794

FILOFAX_WIDTH == 12 * cm

FILOFAX_HEIGHT == 8 * cm

HOLE_PUNCH_MARGIN == 1 * cm

SHEETS_PER_PAGE == 3

SHEET_MARGIN == 1 * cm

SHEET_SPACING == (2 * cm) \div 10

total_sheets_height == 3 * FILOFAX_HEIGHT + 2 * SHEET_SPACING

top_margin == (LETTER_HEIGHT - total_sheets_height) \div 2

----------------------------------------------------------------------------
(* datetime: ordinals, calendar fields, weekday, strftime *)

IsLeap(y) == y % 4 = 0 /\ (y % 100 # 0 \/ y % 400 = 0)

DaysBeforeYear(y) ==
    (y - 1) * 365 + (y - 1) \div 4 - (y - 1) \div 100 + (y - 1) \div 400

\* the days of year y before month m
DaysBeforeMonth(y, m) ==
    <<0, 31, 59, 90, 120, 151, 181, 212, 243, 273, 304, 334>>[m]
        + (IF m > 2 /\ IsLeap(y) THEN 1 ELSE 0)

\* datetime(y, m, d) as an ordinal
Ymd2Ord(y, m, d) == DaysBeforeYear(y) + DaysBeforeMonth(y, m) + d

\* the year of ordinal n: the 400/100/4/1-year cycle decomposition
Year(n) ==
    LET n0   == n - 1
        n400 == n0 \div 146097
        r400 == n0 % 146097
        n100 == r400 \div 36524
        r100 == r400 % 36524
        n4   == r100 \div 1461
        r4   == r100 % 1461
        n1   == r4 \div 365
        y    == n400 * 400 + 1 + n100 * 100 + n4 * 4 + n1
    IN  IF n1 = 4 \/ n100 = 4 THEN y - 1 ELSE y

\* 1-based day of the year of ordinal n
DayOfYear(n) == n - DaysBeforeYear(Year(n))

\* the month of ordinal n: an estimate that is exact or one too large
Month(n) ==
    LET y     == Year(n)
        n0    == n - DaysBeforeYear(y) - 1
        guess == (n0 + 50) \div 32
    IN  IF DaysBeforeMonth(y, guess) > n0 THEN guess - 1 ELSE guess

Day(n) == DayOfYear(n) - DaysBeforeMonth(Year(n), Month(n))

\* datetime.weekday(): Monday is 0
Weekday(n) == (n + 6) % 7

\* isocalendar()[1]: the week of the year of the date's Thursday
IsoWeek(n) == (DayOfYear(n - Weekday(n) + 3) - 1) \div 7 + 1

\* strftime('%B')
MonthName(m) ==
    <<"January", "February", "March", "April", "May", "June", "July",
      "August", "September", "October", "November", "December">>[m]

\* strftime('%b')
MonthAbbr(m) ==
    <<"Jan", "Feb", "Mar", "Apr", "May", "Jun", "Jul",
      "Aug", "Sep", "Oct", "Nov", "Dec">>[m]

----------------------------------------------------------------------------
(* The fixed date range, and the bounds of the ranges SpecRange tries *)

START_DATE == Ymd2Ord(2025, 7, 1)

END_DATE == Ymd2Ord(2026, 12, 31)

MaxStartShift == 20

MaxSpan == 45

RangeBase == Ymd2Ord(2025, 12, 1)

----------------------------------------------------------------------------
VARIABLES
    pc,             \* the position in create_filofax_calendar
    start_date,
    end_date,
    current_date,
    current_year,
    sheet_count,
    page_position,
    y_offset,
    c               \* the canvas

vars == <<pc, start_date, end_date, current_date, current_year, sheet_count,
          page_position, y_offset, c>>

----------------------------------------------------------------------------
(* The canvas.  pages: the pages emitted so far, each the sequence of      *)
(* drawing calls it holds; code: the calls of the page being drawn;        *)
(* stack: the saved origins; origin: the current translation;              *)
(* saved: how often save() ran.                                            *)

Canvas ==
    [pages |-> <<>>, code |-> <<>>, stack |-> <<>>, origin |-> <<0, 0>>,
     saved |-> 0]

ShowPage(cv) == [cv EXCEPT !.pages = Append(cv.pages, cv.code), !.code = <<>>]

SaveState(cv) == [cv EXCEPT !.stack = Append(cv.stack, cv.origin)]

Translate(cv, dx, dy) ==
    [cv EXCEPT !.origin = <<cv.origin[1] + dx, cv.origin[2] + dy>>]

\* a restoreState that restores nothing
RestoreNothing(cv) == cv

RestoreState(cv) ==
    [cv EXCEPT !.origin = cv.stack[Len(cv.stack)],
               !.stack = SubSeq(cv.stack, 1, Len(cv.stack) - 1)]

\* a run that never saves
SaveNothing(cv) == cv

\* save() emits the page being drawn when it holds anything, then writes
Save(cv) ==
    LET shown == IF cv.code # <<>> THEN ShowPage(cv) ELSE cv
    IN  [shown EXCEPT !.saved = cv.saved + 1]

Draw(cv, call) == [cv EXCEPT !.code = Append(cv.code, call)]

----------------------------------------------------------------------------
(* draw_filofax_sheet and its helpers *)

months_in_week(d) == {Month(d + i) : i \in 0..6}

\* the label with Thursday's month as the second abbreviation
MonthStrThursday(d) ==
    IF Cardinality(months_in_week(d)) = 1
    THEN MonthName(Month(d + 3))
    ELSE MonthAbbr(Month(d)) \o " / " \o MonthAbbr(Month(d + 3))

month_str(d) ==
    IF Cardinality(months_in_week(d)) = 1
    THEN MonthName(Month(d + 3))
    ELSE MonthAbbr(Month(d)) \o " / " \o MonthAbbr(Month(d + 6))

start_y == FILOFAX_HEIGHT - HOLE_PUNCH_MARGIN - cm - cm \div 2

\* a line count two too large
NumLinesTooMany == start_y \div (cm \div 2) + 2

num_lines == start_y \div (cm \div 2)

\* the loop of draw_horizontal_lines from index i on: the lines drawn, and
\* whether the y_pos < 0 guard stopped it
RECURSIVE HorizontalLinesFrom(_, _)
HorizontalLinesFrom(i, acc) ==
    IF i >= num_lines THEN [lines |-> acc, stopped |-> FALSE]
    ELSE LET y_pos == start_y - i * (cm \div 2)
         IN  IF y_pos < 0 THEN [lines |-> acc, stopped |-> TRUE]
             ELSE HorizontalLinesFrom(i + 1, Append(acc, y_pos))

draw_horizontal_lines == HorizontalLinesFrom(0, <<>>)

\* what one call of draw_filofax_sheet puts on the canvas
draw_filofax_sheet(cv, d) ==
    Draw(cv, [op        |-> "sheet",
              at        |-> cv.origin,
              date      |-> d,
              days      |-> [i \in 1..7 |-> Day(d + i - 1)],
              month_str |-> month_str(d),
              week      |-> IsoWeek(d),
              year      |-> Year(d),
              lines     |-> draw_horizontal_lines.lines,
              stopped   |-> draw_horizontal_lines.stopped])

draw_cutting_marks(cv) == Draw(cv, [op |-> "marks", at |-> cv.origin])

----------------------------------------------------------------------------
(* The page tiler's arithmetic *)

\* the loop test with < for <=
LoopConditionStrict(cur, end) == cur < end

LoopCondition(cur, end) == cur <= end

\* the new-year check without its reset
SheetCountNoReset(cur, year, count) == count

\* sheet_count after the new-year check
SheetCountForYear(cur, year, count) ==
    IF Year(cur) # year THEN 0 ELSE count

\* the slot one too far
PagePositionOffByOne(count) == (count + 1) % SHEETS_PER_PAGE

PagePosition(count) == count % SHEETS_PER_PAGE

\* the page break suppressed while the page is empty
NewPageUnlessEmpty(position) == position = 0 /\ c.code # <<>>

NewPage(position) == position = 0

\* the offset without the spacing term
YOffsetNoSpacing(position) ==
    LETTER_HEIGHT - top_margin - (position + 1) * FILOFAX_HEIGHT

YOffset(position) ==
    LETTER_HEIGHT - top_margin - (position + 1) * FILOFAX_HEIGHT
        - position * SHEET_SPACING

----------------------------------------------------------------------------
(* create_filofax_calendar *)

Init ==
    /\ pc = "find_monday"
    /\ start_date = START_DATE
    /\ end_date = END_DATE
    /\ current_date = start_date
    /\ current_year = 0
    /\ sheet_count = 0
    /\ page_position = 0
    /\ y_offset = 0
    /\ c = Canvas

\* other date ranges: a start in the weeks before a year's end, any end
\* from the day before the start on
RangeInit ==
    /\ pc = "find_monday"
    /\ start_date \in RangeBase .. RangeBase + MaxStartShift
    /\ end_date \in start_date - 1 .. start_date + MaxSpan
    /\ current_date = start_date
    /\ current_year = 0
    /\ sheet_count = 0
    /\ page_position = 0
    /\ y_offset = 0
    /\ c = Canvas

\* while current_date.weekday() != 0: current_date += 1 day
FindFirstMonday ==
    /\ pc = "find_monday"
    /\ Weekday(current_date) # 0
    /\ current_date' = current_date + 1
    /\ UNCHANGED <<pc, start_date, end_date, current_year, sheet_count,
                   page_position, y_offset, c>>

\* current_year, sheet_count and the margins, once the Monday is found
TrackYear ==
    /\ pc = "find_monday"
    /\ Weekday(current_date) = 0
    /\ current_year' = Year(current_date)
    /\ sheet_count' = 0
    /\ pc' = "loop"
    /\ UNCHANGED <<start_date, end_date, current_date, page_position,
                   y_offset, c>>

\* the loop test passes; the new-year check
CheckNewYear ==
    /\ pc = "loop"
    /\ LoopCondition(current_date, end_date)
    /\ current_year' = Year(current_date)
    /\ sheet_count' = SheetCountForYear(current_date, current_year, sheet_count)
    /\ pc' = "position"
    /\ UNCHANGED <<start_date, end_date, current_date, page_position,
                   y_offset, c>>

\* page_position, and the page break of slot 0
CalcPosition ==
    /\ pc = "position"
    /\ page_position' = PagePosition(sheet_count)
    /\ IF NewPage(PagePosition(sheet_count))
       THEN c' = ShowPage(c) /\ sheet_count' = 0
       ELSE UNCHANGED <<c, sheet_count>>
    /\ pc' = "place"
    /\ UNCHANGED <<start_date, end_date, current_date, current_year, y_offset>>

\* y_offset, saveState, translate
PlaceSheet ==
    /\ pc = "place"
    /\ y_offset' = YOffset(page_position)
    /\ c' = Translate(SaveState(c), SHEET_MARGIN, YOffset(page_position))
    /\ pc' = "draw"
    /\ UNCHANGED <<start_date, end_date, current_date, current_year,
                   sheet_count, page_position>>

DrawFilofaxSheet ==
    /\ pc = "draw"
    /\ c' = draw_filofax_sheet(c, current_date)
    /\ pc' = "marks"
    /\ UNCHANGED <<start_date, end_date, current_date, current_year,
                   sheet_count, page_position, y_offset>>

DrawCuttingMarks ==
    /\ pc = "marks"
    /\ c' = draw_cutting_marks(c)
    /\ pc' = "restore"
    /\ UNCHANGED <<start_date, end_date, current_date, current_year,
                   sheet_count, page_position, y_offset>>

Restore ==
    /\ pc = "restore"
    /\ c' = RestoreState(c)
    /\ pc' = "advance"
    /\ UNCHANGED <<start_date, end_date, current_date, current_year,
                   sheet_count, page_position, y_offset>>

\* sheet_count += 1; current_date += 7 days
Advance ==
    /\ pc = "advance"
    /\ sheet_count' = sheet_count + 1
    /\ current_date' = current_date + 7
    /\ pc' = "loop"
    /\ UNCHANGED <<start_date, end_date, current_year, page_position,
                   y_offset, c>>

\* the loop test fails; c.save()
SaveCanvas ==
    /\ pc = "loop"
    /\ ~LoopCondition(current_date, end_date)
    /\ c' = Save(c)
    /\ pc' = "done"
    /\ UNCHANGED <<start_date, end_date, current_date, current_year,
                   sheet_count, page_position, y_offset>>

Next ==
    \/ FindFirstMonday
    \/ TrackYear
    \/ CheckNewYear
    \/ CalcPosition
    \/ PlaceSheet
    \/ DrawFilofaxSheet
    \/ DrawCuttingMarks
    \/ Restore
    \/ Advance
    \/ SaveCanvas

\* the program as written: the fixed range
Spec == Init /\ [][Next]_vars

\* the program runs to completion: it is one thread that never waits
FairSpec == Spec /\ WF_vars(Next)

\* the same code over other date ranges
SpecRange == (Init \/ RangeInit) /\ [][Next]_vars

----------------------------------------------------------------------------
(* What the claims speak of *)

RECURSIVE Flatten(_)
Flatten(ss) == IF ss = <<>> THEN <<>> ELSE Head(ss) \o Flatten(Tail(ss))

IsSheet(call) == call.op = "sheet"

\* every drawing call so far, in order
Calls == Flatten(c.pages) \o c.code

\* the sheets drawn so far, in order
Sheets == SelectSeq(Calls, IsSheet)

SheetsOn(page) == SelectSeq(page, IsSheet)

\* the pages of the document: those emitted, and the one being drawn
Pages == IF c.saved > 0 THEN c.pages ELSE Append(c.pages, c.code)

----------------------------------------------------------------------------
(* C1: the week dates *)

Monday(n) == n % 7 = 1

SheetDates == [k \in 1..Len(Sheets) |-> Sheets[k].date]

MondaysInRange == {d \in start_date..end_date : Monday(d)}

\* C1: the sheets are drawn for exactly the Mondays M with
\* start_date <= M <= end_date, ascending: the first is the smallest Monday
\* >= start_date, each next one is 7 days later, none is later than
\* end_date, and when the run is over none is missing.
C1_WeeksAreTheMondaysInRange ==
    LET S == SheetDates
    IN  /\ \A k \in 1..Len(S) : Monday(S[k]) /\ start_date <= S[k] /\ S[k] <= end_date
        /\ S # <<>> => ~ \E d \in start_date..(S[1] - 1) : Monday(d)
        /\ \A k \in 1..(Len(S) - 1) : S[k + 1] = S[k] + 7
        /\ pc = "done" => {S[k] : k \in 1..Len(S)} = MondaysInRange

\* a finished run whose start needed the search for a Monday and whose end
\* date is itself a Monday, drawn as the last sheet
C1_Witness ==
    /\ pc = "done"
    /\ ~Monday(start_date)
    /\ Len(Sheets) >= 3
    /\ Sheets[Len(Sheets)].date = end_date

----------------------------------------------------------------------------
(* C2: the slot cycle and the year reset *)

\* C2: the step that assigns a sheet its slot gives the first sheet slot 0,
\* a sheet whose Monday is in another year than the previous sheet's Monday
\* slot 0 whatever the previous slot was, and every other sheet the slot
\* after the previous one in the cycle 0,1,2,0; a sheet of a new year gets a
\* page break (the page so far is emitted) before it is drawn.
C2_SlotCycleWithYearReset ==
    [][pc = "position" =>
        LET first   == Sheets = <<>>
            newYear == /\ ~first
                       /\ Year(current_date) # Year(Sheets[Len(Sheets)].date)
        IN  /\ page_position' =
                   IF first \/ newYear THEN 0 ELSE (page_position + 1) % 3
            /\ newYear => /\ c'.pages = Append(c.pages, c.code)
                          /\ c'.code = <<>>
            /\ pc' = "place" /\ current_date' = current_date]_vars

\* the first sheet of a new year placed in slot 0 on a fresh page although
\* the previous sheet was in slot 1
C2_Witness ==
    /\ pc = "place"
    /\ Sheets # <<>>
    /\ Year(current_date) # Year(Sheets[Len(Sheets)].date)
    /\ page_position = 0
    /\ c.code = <<>>
    /\ Len(SheetsOn(c.pages[Len(c.pages)])) = 2

----------------------------------------------------------------------------
(* C3: sheets per page *)

SheetsPerPage == [i \in 1..Len(Pages) |-> Len(SheetsOn(Pages[i]))]

\* C3 as claimed: in the finished document every page but the final one
\* holds exactly 3 sheets, and the final one holds at most 3.
C3_ThreePerPageExceptFinal ==
    pc = "done" =>
        /\ \A i \in 1..(Len(Pages) - 1) : SheetsPerPage[i] = 3
        /\ Pages # <<>> => SheetsPerPage[Len(Pages)] \in 1..3

\* C3 amended: in the finished document the leading page holds no sheet,
\* every later page holds 1 to 3 sheets, all of one calendar year, and a
\* page that holds fewer than 3 is the final page or the last page of its
\* calendar year (the next page starts with a sheet of another year).
C3_ThreePerPageExceptBlankYearEndFinal ==
    pc = "done" =>
        /\ Len(Pages) >= 2
        /\ SheetsPerPage[1] = 0
        /\ \A i \in 2..Len(Pages) :
            LET here == SheetsOn(Pages[i])
            IN  /\ Len(here) \in 1..3
                /\ \A k \in 1..Len(here) : Year(here[k].date) = Year(here[1].date)
                /\ Len(here) < 3 =>
                      \/ i = Len(Pages)
                      \/ Year(SheetsOn(Pages[i + 1])[1].date) # Year(here[1].date)

\* the finished document: a blank leading page, a page of 2 sheets before
\* the year changes, and a final page of 1 sheet
C3_Witness ==
    /\ pc = "done"
    /\ SheetsPerPage[1] = 0
    /\ \E i \in 2..(Len(Pages) - 1) : SheetsPerPage[i] = 2
    /\ SheetsPerPage[Len(Pages)] = 1

----------------------------------------------------------------------------
(* C4: the vertical offsets *)

ClaimedTopMargin ==
    (LETTER_HEIGHT - (3 * FILOFAX_HEIGHT + 2 * SHEET_SPACING)) \div 2

ClaimedYOffset(slot) ==
    LETTER_HEIGHT - ClaimedTopMargin - (slot + 1) * FILOFAX_HEIGHT
        - slot * SHEET_SPACING

----------------------------------------------------------------------------
(* C5: the page count *)

WeeksOfYear(y) == Cardinality({k \in 1..Len(Sheets) : Year(Sheets[k].date) = y})

YearsDrawn == {Year(Sheets[k].date) : k \in 1..Len(Sheets)}

RECURSIVE PagesForYears(_)
PagesForYears(ys) ==
    IF ys = {} THEN 0
    ELSE LET y == CHOOSE y \in ys : TRUE
         IN  (WeeksOfYear(y) + 2) \div 3 + PagesForYears(ys \ {y})

\* C5 as claimed: the finished document has as many pages as the sum over
\* the calendar years of ceil(weeks drawn in that year / 3).
C5_PageCountIsWeeksOverThree ==
    pc = "done" => Len(c.pages) = PagesForYears(YearsDrawn)

----------------------------------------------------------------------------
(* C6: the month label *)

WeekInOneMonth(d) == \A i \in 0..6 : Month(d + i) = Month(d)

\* C6: a sheet's month label is the full name of the month when its seven
\* days lie in one month, and otherwise "<abbr of Monday's month> / <abbr
\* of Sunday's month>"; 2025-08-04 gives "August", 2025-09-29 gives
\* "Sep / Oct", and 2025-07-28, whose Thursday is still in July, gives the
\* two-month label.
C6_MonthLabel ==
    \A k \in 1..Len(Sheets) :
        LET d == Sheets[k].date
            label == Sheets[k].month_str
        IN  /\ WeekInOneMonth(d) =>
                label = MonthName(Month(d)) /\ Month(d + 3) = Month(d)
            /\ ~WeekInOneMonth(d) =>
                label = MonthAbbr(Month(d)) \o " / " \o MonthAbbr(Month(d + 6))
            /\ d = Ymd2Ord(2025, 8, 4) => label = "August"
            /\ d = Ymd2Ord(2025, 9, 29) => label = "Sep / Oct"
            /\ d = Ymd2Ord(2025, 7, 28) => label = "Jul / Aug"

\* the three weeks the claim names have been drawn, one of them with its
\* Thursday in the first of its two months
C6_Witness ==
    /\ \E k \in 1..Len(Sheets) :
        /\ Sheets[k].date = Ymd2Ord(2025, 7, 28)
        /\ Month(Sheets[k].date + 3) = 7
        /\ Month(Sheets[k].date + 6) = 8
    /\ \E k \in 1..Len(Sheets) : Sheets[k].date = Ymd2Ord(2025, 8, 4)
    /\ \E k \in 1..Len(Sheets) : Sheets[k].date = Ymd2Ord(2025, 9, 29)

----------------------------------------------------------------------------
(* C7: termination and the single save *)

\* C7: every run ends, with the document saved exactly once; save never
\* runs twice, and once it has run no drawing call and no page break
\* follows.
C7_TerminatesSavedOnce ==
    /\ <>(pc = "done" /\ c.saved = 1)
    /\ [](c.saved <= 1)
    /\ [](c.saved = 1 => pc = "done" /\ current_date > end_date)
    /\ [][c.saved >= 1 => c' = c]_vars

\* the run is over, saved once, with every sheet on an emitted page
C7_Witness ==
    /\ pc = "done"
    /\ c.saved = 1
    /\ Len(Sheets) = 78
    /\ c.code = <<>>

----------------------------------------------------------------------------
(* C8: the leading blank page *)

\* C8: in the first iteration the slot is 0 and a page break is issued
\* before the first sheet is drawn: the first page is emitted holding
\* nothing, and the first sheet is the first thing on the second page.
C8_LeadingBlankPage ==
    /\ (pc = "place" /\ Sheets = <<>>) =>
          page_position = 0 /\ c.pages = << <<>> >> /\ c.code = <<>>
    /\ Sheets # <<>> =>
          /\ Len(Pages) >= 2
          /\ Pages[1] = <<>>
          /\ Pages[2][1] = Sheets[1]

\* the first sheet has been drawn, after the page break of the first
\* iteration
C8_Witness ==
    /\ pc = "marks"
    /\ Len(Sheets) = 1
    /\ c.pages = << <<>> >>
    /\ Len(c.code) = 1

----------------------------------------------------------------------------
(* C9: the fine ruling *)

HeaderDivider == FILOFAX_HEIGHT - HOLE_PUNCH_MARGIN - cm

\* the distance from the sheet top to the point 1.5 cm below the header
\* divider
ClaimedStartY == FILOFAX_HEIGHT - (HeaderDivider - (3 * cm) \div 2)

\* the height above the sheet bottom of the point 0.5 cm below the header
\* divider (1.5 cm below the hole-punch line)
AmendedStartY == HeaderDivider - cm \div 2

RulingFrom(y, sheet) ==
    /\ Len(sheet.lines) = y \div (cm \div 2)
    /\ \A i \in 1..Len(sheet.lines) :
        /\ sheet.lines[i] = y - (i - 1) * (cm \div 2)
        /\ sheet.lines[i] >= 0
    /\ ~sheet.stopped

\* C9 as claimed: every sheet has floor(start_y / 0.5 cm) ruled lines,
\* 0.5 cm apart downward from start_y, none below 0 and the guard unused,
\* where start_y is the distance from the sheet top to the point 1.5 cm
\* below the header divider.
C9_RulingFromClaimedStart ==
    \A k \in 1..Len(Sheets) : RulingFrom(ClaimedStartY, Sheets[k])

\* C9 amended: the same, where start_y is the height above the sheet's
\* bottom edge of the point 0.5 cm below the header divider.
C9_RulingFromAmendedStart ==
    \A k \in 1..Len(Sheets) : RulingFrom(AmendedStartY, Sheets[k])

\* a drawn sheet with its 11 lines, the lowest 0.5 cm above the bottom
C9_Witness ==
    /\ Sheets # <<>>
    /\ Len(Sheets[1].lines) = 11
    /\ Sheets[1].lines[11] = cm \div 2

----------------------------------------------------------------------------
(* C10: the translation is scoped to one sheet *)

\* C10: outside saveState .. restoreState the state stack is empty and the
\* origin is the page's; inside, one state is saved and the origin is
\* (SHEET_MARGIN, y_offset of the slot); every page holds, slot by slot, a
\* sheet and its cutting marks, both drawn at that origin.
C10_TranslationScoped ==
    /\ pc \in {"find_monday", "loop", "position", "place", "advance", "done"} =>
          c.stack = <<>> /\ c.origin = <<0, 0>>
    /\ pc \in {"draw", "marks", "restore"} =>
          /\ c.stack = << <<0, 0>> >>
          /\ c.origin = <<SHEET_MARGIN, ClaimedYOffset(page_position)>>
    /\ \A i \in 1..Len(Pages) : \A n \in 1..Len(Pages[i]) :
          /\ Pages[i][n].op = (IF n % 2 = 1 THEN "sheet" ELSE "marks")
          /\ Pages[i][n].at = <<SHEET_MARGIN, ClaimedYOffset((n - 1) \div 2)>>

\* the loop is back at its test with a full page drawn and the canvas
\* state restored
C10_Witness ==
    /\ pc = "loop"
    /\ Len(c.code) = 6
    /\ c.code[5].at = <<100, 177>>
    /\ c.code[6].at = <<100, 177>>
    /\ c.stack = <<>>

=============================================================================
